---- MODULE Spec2Model ----
(***************************************************************************)
(* The three stage handlers of the Flow transaction-roles plugin           *)
(* (proposer, authorizer, payer): their execute methods, the identifiers   *)
(* they generate and the results they hand to the runtime's callback.      *)
(*                                                                         *)
(* JavaScript strings are sequences of one-character strings; a value that *)
(* may be missing is Undefined or Str(s).  A callback argument is modelled *)
(* by its `content` object, a record that has exactly the fields the code  *)
(* writes (a field the code does not write is absent from the record).     *)
(***************************************************************************)
EXTENDS Integers, Sequences, FiniteSets, TLC

VARIABLES now, call, proposed, authorized

vars == <<now, call, proposed, authorized>>

(* ------------------------------ bounds -------------------------------- *)

\* Date.now() takes the values 0..MaxTime.
MaxTime == 1

\* Math.random() takes the values k / MaxRandomSamples, k < MaxRandomSamples.
MaxRandomSamples == 2

\* The pipeline keeps track of at most this many identifiers per stage.
MaxIssued == 2

(* ------------------------- JavaScript values -------------------------- *)

Undefined == [t |-> "undefined"]

Str(s) == [t |-> "string", s |-> s]

IsStr(v) == v.t = "string"

\* !v for a value that is a string or undefined
Falsy(v) == ~IsStr(v) \/ Len(v.s) = 0

\* String.prototype.startsWith
StartsWith(s, prefix) ==
    /\ Len(s) >= Len(prefix)
    /\ SubSeq(s, 1, Len(prefix)) = prefix

DigitChars == <<"0", "1", "2", "3", "4", "5", "6", "7", "8", "9">>

IsDigit(c) == \E i \in 1..10 : DigitChars[i] = c

DigitValue(c) == (CHOOSE i \in 1..10 : DigitChars[i] = c) - 1

\* the decimal digits of a non-negative integer, as a template literal
\* interpolates it
RECURSIVE NatToString(_)
NatToString(n) ==
    IF n < 10 THEN <<DigitChars[n + 1]>>
    ELSE NatToString(n \div 10) \o <<DigitChars[(n % 10) + 1]>>

WhiteSpace == {" ", "\t", "\n"}

\* String.prototype.trim
RECURSIVE TrimStart(_)
TrimStart(s) ==
    IF Len(s) > 0 /\ Head(s) \in WhiteSpace THEN TrimStart(Tail(s)) ELSE s

RECURSIVE TrimEnd(_)
TrimEnd(s) ==
    IF Len(s) > 0 /\ s[Len(s)] \in WhiteSpace
    THEN TrimEnd(SubSeq(s, 1, Len(s) - 1))
    ELSE s

Trim(s) == TrimEnd(TrimStart(s))

(* --------------------------- identifiers ------------------------------ *)

RandomScale == 1000

\* Math.floor(Math.random() * 1000), Math.random() being k / MaxRandomSamples
RandomSuffix(k) == (k * RandomScale) \div MaxRandomSamples

RandomDraws == 0..(MaxRandomSamples - 1)

ProposalPrefix == <<"p", "r", "o", "p", "o", "s", "a", "l", "-">>

AuthPrefix == <<"a", "u", "t", "h", "-">>

TxPrefix == <<"t", "x", "-">>

\* `${prefix}${Date.now()}-${Math.floor(Math.random() * 1000)}`
MakeId(prefix, t, k) ==
    prefix \o NatToString(t) \o <<"-">> \o NatToString(RandomSuffix(k))

(* ---------------------------- callbacks ------------------------------- *)

\* content === null
NoContent == [t |-> "null"]

\* the callback parameter: not given, a function that returns, or one that throws
Callbacks == {"none", "returns", "throws"}

\* the message parameter: a Memory object, or undefined
Messages == {"memory", "undefined"}

CallbackError == "callback failed"

\* A run of a handler: the contents handed to the callback, in order, and
\* whether control left the handler normally ("returned") or by an
\* exception ("threw").
Run(delivered, outcome) == [delivered |-> delivered, outcome |-> outcome]

\* mutant: a property the exception does not have is reported (e.msg)
CatchDroppingMessage(callback, delivered, msg) ==
    CASE callback = "none" -> Run(delivered, "returned")
      [] callback = "returns" -> Run(Append(delivered, [error |-> ""]), "returned")
      [] callback = "throws" -> Run(Append(delivered, [error |-> ""]), "threw")

\* catch (e) { callback?.({content: {error: e.message}}) }
Catch(callback, delivered, msg) ==
    CASE callback = "none" -> Run(delivered, "returned")
      [] callback = "returns" -> Run(Append(delivered, [error |-> msg]), "returned")
      [] callback = "throws" -> Run(Append(delivered, [error |-> msg]), "threw")

\* if (callback) { callback({content}) } at the end of the try block
Deliver(callback, content) ==
    CASE callback = "none" -> Run(<<>>, "returned")
      [] callback = "returns" -> Run(<<content>>, "returned")
      [] callback = "throws" -> Catch(callback, <<content>>, CallbackError)

(* --------------------------- authorizer ------------------------------- *)

InvalidProposalId == "Invalid proposal ID format"

\* mutant: the prefix compared lacks its dash
ProposalIdRejectedNoDash(v) ==
    Falsy(v) \/ ~StartsWith(v.s, SubSeq(ProposalPrefix, 1, Len(ProposalPrefix) - 1))

\* !content.proposalId || !content.proposalId.startsWith("proposal-")
ProposalIdRejected(v) == Falsy(v) \/ ~StartsWith(v.s, ProposalPrefix)

AuthorizedContent(content, t, k) ==
    [success |-> TRUE,
     proposalId |-> content.proposalId,
     authorizationId |-> Str(MakeId(AuthPrefix, t, k)),
     status |-> "authorized"]

\* mutant: the status of the approving branch, copied
RejectedContentCopied(content) ==
    [success |-> TRUE,
     proposalId |-> content.proposalId,
     status |-> "authorized"]

RejectedContent(content) ==
    [success |-> TRUE,
     proposalId |-> content.proposalId,
     status |-> "rejected"]

\* mutant: the decision read the wrong way round
ExecuteAuthorizerInverted(content, message, callback, t, k) ==
    IF content = NoContent THEN Run(<<>>, "returned")
    ELSE IF message = "undefined" THEN Run(<<>>, "threw")
    ELSE IF ProposalIdRejected(content.proposalId)
         THEN Catch(callback, <<>>, InvalidProposalId)
    ELSE IF ~content.authorize
         THEN Deliver(callback, AuthorizedContent(content, t, k))
    ELSE Deliver(callback, RejectedContent(content))

\* TransactionAuthorizerAction.execute
ExecuteAuthorizer(content, message, callback, t, k) ==
    IF content = NoContent THEN Run(<<>>, "returned")
    ELSE IF message = "undefined" THEN Run(<<>>, "threw")
    ELSE IF ProposalIdRejected(content.proposalId)
         THEN Catch(callback, <<>>, InvalidProposalId)
    ELSE IF content.authorize
         THEN Deliver(callback, AuthorizedContent(content, t, k))
    ELSE Deliver(callback, RejectedContent(content))

(* ----------------------------- numbers -------------------------------- *)

\* A JavaScript number: NaN, +/-Infinity, or the decimal (-1)^neg * m / 10^e.
\* Decimals are exact here; the last-bit rounding of IEEE doubles is not
\* modelled.
NaN == [k |-> "nan", neg |-> FALSE, m |-> 0, e |-> 0]

Infinite(neg) == [k |-> "inf", neg |-> neg, m |-> 0, e |-> 0]

Finite(neg, m, e) == [k |-> "fin", neg |-> neg, m |-> m, e |-> e]

RECURSIVE Pow10(_)
Pow10(n) == IF n = 0 THEN 1 ELSE 10 * Pow10(n - 1)

\* isNaN(x)
IsNaN(x) == x.k = "nan"

\* x <= 0
LeqZero(x) ==
    CASE x.k = "nan" -> FALSE
      [] x.k = "inf" -> x.neg
      [] x.k = "fin" -> x.neg \/ x.m = 0

\* the number of digits of s from position i on
RECURSIVE DigitRun(_, _)
DigitRun(s, i) ==
    IF i <= Len(s) /\ IsDigit(s[i]) THEN 1 + DigitRun(s, i + 1) ELSE 0

\* the value of the n digits of s that start at position i
RECURSIVE DigitsValue(_, _, _)
DigitsValue(s, i, n) ==
    IF n = 0 THEN 0
    ELSE 10 * DigitsValue(s, i, n - 1) + DigitValue(s[i + n - 1])

InfinityChars == <<"I", "n", "f", "i", "n", "i", "t", "y">>

UndefinedChars == <<"u", "n", "d", "e", "f", "i", "n", "e", "d">>

\* parseFloat: the argument as a string, leading white space dropped, then
\* the longest prefix that is a decimal literal (sign, Infinity or digits
\* with a fraction and an exponent); NaN when there is none.
ParseFloat(v) ==
    LET s == TrimStart(IF IsStr(v) THEN v.s ELSE UndefinedChars)
        signed == Len(s) > 0 /\ s[1] \in {"+", "-"}
        neg == Len(s) > 0 /\ s[1] = "-"
        body == IF signed THEN Tail(s) ELSE s
        ni == DigitRun(body, 1)
        hasDot == ni + 1 <= Len(body) /\ body[ni + 1] = "."
        nf == IF hasDot THEN DigitRun(body, ni + 2) ELSE 0
        mant == DigitsValue(body, 1, ni) * Pow10(nf) + DigitsValue(body, ni + 2, nf)
        q == ni + (IF hasDot THEN 1 ELSE 0) + nf + 1
        hasE == q <= Len(body) /\ body[q] \in {"e", "E"}
        expSigned == hasE /\ q + 1 <= Len(body) /\ body[q + 1] \in {"+", "-"}
        expNeg == expSigned /\ body[q + 1] = "-"
        x0 == IF expSigned THEN q + 2 ELSE q + 1
        nx == IF hasE THEN DigitRun(body, x0) ELSE 0
        x == (IF expNeg THEN -1 ELSE 1) * DigitsValue(body, x0, nx)
    IN  IF StartsWith(body, InfinityChars) THEN Infinite(neg)
        ELSE IF ni + nf = 0 THEN NaN
        ELSE IF nf - x >= 0 THEN Finite(neg, mant, nf - x)
        ELSE Finite(neg, mant * Pow10(x - nf), 0)

\* x * 0.7
GasUsedTenths == 7

TimesFraction(x) ==
    IF x.k = "fin" THEN Finite(x.neg, x.m * GasUsedTenths, x.e + 1) ELSE x

\* the n digits of q, zero-padded on the left
RECURSIVE PadDigits(_, _)
PadDigits(q, n) ==
    IF n = 0 THEN <<>>
    ELSE PadDigits(q \div 10, n - 1) \o <<DigitChars[(q % 10) + 1]>>

\* x rounded to d decimal places, halves rounded up (x not negative)
RoundTo(x, d) ==
    IF x.e <= d THEN x.m * Pow10(d - x.e)
    ELSE (2 * x.m + Pow10(x.e - d)) \div (2 * Pow10(x.e - d))

\* Number.prototype.toFixed(d) of a number that is not negative
ToFixed(x, d) ==
    CASE x.k = "nan" -> <<"N", "a", "N">>
      [] x.k = "inf" -> InfinityChars
      [] x.k = "fin" ->
           LET q == RoundTo(x, d)
           IN  NatToString(q \div Pow10(d)) \o <<".">> \o PadDigits(q % Pow10(d), d)

(* ------------------------------ payer --------------------------------- *)

InvalidAuthorizationId == "Invalid authorization ID format"

FixedDigits == 8

\* 0.0001
DefaultGasLimit == Finite(FALSE, 1, 4)

\* mutant: only the presence of the identifier is checked
AuthorizationIdRejectedIfMissing(v) == Falsy(v)

\* !content.authorizationId || !content.authorizationId.startsWith("auth-")
AuthorizationIdRejected(v) == Falsy(v) \/ ~StartsWith(v.s, AuthPrefix)

\* mutant: zero is kept (< 0 for <= 0)
GasLimitOfKeepingZero(text) ==
    LET parsed == ParseFloat(text)
    IN  IF IsNaN(parsed) \/ (LeqZero(parsed) /\ ~(parsed.k = "fin" /\ parsed.m = 0))
        THEN DefaultGasLimit
        ELSE parsed

\* gasLimit = parseFloat(content.gasLimit);
\* if (isNaN(gasLimit) || gasLimit <= 0) gasLimit = 0.0001
GasLimitOf(text) ==
    LET parsed == ParseFloat(text)
    IN  IF IsNaN(parsed) \/ LeqZero(parsed) THEN DefaultGasLimit ELSE parsed

\* (gasLimit * 0.7).toFixed(8)
GasUsedOf(gasLimit) == ToFixed(TimesFraction(gasLimit), FixedDigits)

SealedContent(content, t, k) ==
    [success |-> TRUE,
     authorizationId |-> content.authorizationId,
     transactionId |-> Str(MakeId(TxPrefix, t, k)),
     gasUsed |-> Str(GasUsedOf(GasLimitOf(content.gasLimit))),
     status |-> "SEALED"]

\* TransactionPayerAction.execute
ExecutePayer(content, message, callback, t, k) ==
    IF content = NoContent THEN Run(<<>>, "returned")
    ELSE IF message = "undefined" THEN Run(<<>>, "threw")
    ELSE IF AuthorizationIdRejected(content.authorizationId)
         THEN Catch(callback, <<>>, InvalidAuthorizationId)
    ELSE Deliver(callback, SealedContent(content, t, k))

\* the gas limits that execute writes to the log ("... with gas limit: ...")
PayerLoggedLimits(content, message) ==
    IF content = NoContent \/ message = "undefined" THEN <<>>
    ELSE IF AuthorizationIdRejected(content.authorizationId) THEN <<>>
    ELSE <<GasLimitOf(content.gasLimit)>>

(* --------------------------- JSON.parse ------------------------------- *)

JsonWhiteSpace == {" ", "\t", "\n", "\r"}

RECURSIVE SkipWs(_, _)
SkipWs(s, i) ==
    IF i <= Len(s) /\ s[i] \in JsonWhiteSpace THEN SkipWs(s, i + 1) ELSE i

\* A parse: whether a JSON value starts at the position asked, the position
\* after it, and the value.
ParseFail == [ok |-> FALSE, pos |-> 0, val |-> [k |-> "none"]]

Parsed(pos, val) == [ok |-> TRUE, pos |-> pos, val |-> val]

At(s, i, c) == i <= Len(s) /\ s[i] = c

JsonEscapes == {"\"", "\\", "/", "b", "f", "n", "r", "t"}

\* the position of the quote that closes the string whose first character is
\* at i, or 0 (escapes are a backslash and one character; no \u escapes)
RECURSIVE StringEnd(_, _)
StringEnd(s, i) ==
    IF i > Len(s) THEN 0
    ELSE IF s[i] = "\"" THEN i
    ELSE IF s[i] \in {"\t", "\n", "\r"} THEN 0
    ELSE IF s[i] = "\\"
         THEN IF i + 1 <= Len(s) /\ s[i + 1] \in JsonEscapes
              THEN StringEnd(s, i + 2)
              ELSE 0
    ELSE StringEnd(s, i + 1)

ParseString(s, i) ==
    LET j == StringEnd(s, i + 1)
    IN  IF j = 0 THEN ParseFail
        ELSE Parsed(j + 1, [k |-> "string", s |-> SubSeq(s, i + 1, j - 1)])

\* -? (0 | [1-9][0-9]*) (. [0-9]+)? ([eE] [+-]? [0-9]+)?
ParseNumber(s, i) ==
    LET p == IF At(s, i, "-") THEN i + 1 ELSE i
        ni == IF At(s, p, "0") THEN 1 ELSE DigitRun(s, p)
        hasDot == At(s, p + ni, ".")
        nf == IF hasDot THEN DigitRun(s, p + ni + 1) ELSE 0
        q == IF hasDot THEN p + ni + 1 + nf ELSE p + ni
        hasE == At(s, q, "e") \/ At(s, q, "E")
        x0 == IF At(s, q + 1, "+") \/ At(s, q + 1, "-") THEN q + 2 ELSE q + 1
        nx == IF hasE THEN DigitRun(s, x0) ELSE 0
        end == IF hasE THEN x0 + nx ELSE q
    IN  IF ni = 0 \/ (hasDot /\ nf = 0) \/ (hasE /\ nx = 0) THEN ParseFail
        ELSE Parsed(end, [k |-> "number", s |-> SubSeq(s, i, end - 1)])

JsonLiterals ==
    {<<"t", "r", "u", "e">>, <<"f", "a", "l", "s", "e">>, <<"n", "u", "l", "l">>}

ParseLiteral(s, i) ==
    IF \E w \in JsonLiterals : StartsWith(SubSeq(s, i, Len(s)), w)
    THEN LET w == CHOOSE w \in JsonLiterals : StartsWith(SubSeq(s, i, Len(s)), w)
         IN  Parsed(i + Len(w), [k |-> "literal", s |-> w])
    ELSE ParseFail

RECURSIVE ParseValue(_, _), ParseElements(_, _, _), ParseMembers(_, _, _)

\* the value that starts at position i (white space before it skipped)
ParseValue(s, i) ==
    IF i > Len(s) THEN ParseFail
    ELSE IF s[i] = "["
         THEN IF At(s, SkipWs(s, i + 1), "]")
              THEN Parsed(SkipWs(s, i + 1) + 1, [k |-> "array", items |-> <<>>])
              ELSE ParseElements(s, i + 1, <<>>)
    ELSE IF s[i] = "{"
         THEN IF At(s, SkipWs(s, i + 1), "}")
              THEN Parsed(SkipWs(s, i + 1) + 1, [k |-> "object", members |-> <<>>])
              ELSE ParseMembers(s, i + 1, <<>>)
    ELSE IF s[i] = "\"" THEN ParseString(s, i)
    ELSE IF s[i] = "-" \/ IsDigit(s[i]) THEN ParseNumber(s, i)
    ELSE ParseLiteral(s, i)

\* value ("," value)* "]", the values before position i being acc
ParseElements(s, i, acc) ==
    LET v == ParseValue(s, SkipWs(s, i))
        j == SkipWs(s, v.pos)
    IN  IF ~v.ok THEN ParseFail
        ELSE IF At(s, j, ",") THEN ParseElements(s, j + 1, Append(acc, v.val))
        ELSE IF At(s, j, "]")
             THEN Parsed(j + 1, [k |-> "array", items |-> Append(acc, v.val)])
        ELSE ParseFail

\* string ":" value ("," string ":" value)* "}"
ParseMembers(s, i, acc) ==
    LET n == SkipWs(s, i)
        key == IF At(s, n, "\"") THEN ParseString(s, n) ELSE ParseFail
        c == SkipWs(s, key.pos)
        v == IF key.ok /\ At(s, c, ":") THEN ParseValue(s, SkipWs(s, c + 1)) ELSE ParseFail
        j == SkipWs(s, v.pos)
    IN  IF ~v.ok THEN ParseFail
        ELSE IF At(s, j, ",")
             THEN ParseMembers(s, j + 1, Append(acc, <<key.val.s, v.val>>))
        ELSE IF At(s, j, "}")
             THEN Parsed(j + 1, [k |-> "object",
                                 members |-> Append(acc, <<key.val.s, v.val>>)])
        ELSE ParseFail

\* JSON.parse(v): the argument as a string; one value, white space around
\* it, and nothing else.  ParseFail stands for the SyntaxError it throws.
JsonParse(v) ==
    LET s == IF IsStr(v) THEN v.s ELSE UndefinedChars
        r == ParseValue(s, SkipWs(s, 1))
    IN  IF r.ok /\ SkipWs(s, r.pos) = Len(s) + 1 THEN r ELSE ParseFail

\* mutant: typeof val === "object"
IsArrayLoose(val) == val.k \in {"array", "object"} \/ (val.k = "literal" /\ val.s[1] = "n")

\* Array.isArray
IsArray(val) == val.k = "array"

(* ----------------------------- proposer ------------------------------- *)

InvalidArgumentsSyntax == "Invalid arguments format: <SyntaxError message>"

InvalidArgumentsShape == "Invalid arguments format: Arguments must be an array"

EmptyTransactionCode == "Transaction code cannot be empty"

\* !content.transactionCode || content.transactionCode.trim() === ""
TransactionCodeRejected(v) == Falsy(v) \/ Trim(v.s) = <<>>

ProposalContent(content, args, t, k) ==
    [success |-> TRUE,
     proposalId |-> Str(MakeId(ProposalPrefix, t, k)),
     transactionCode |-> content.transactionCode,
     arguments |-> args,
     description |-> content.description]

\* TransactionProposerAction.execute
ExecuteProposer(content, callback, t, k) ==
    IF content = NoContent THEN Run(<<>>, "returned")
    ELSE LET args == JsonParse(content.arguments)
         IN  IF ~args.ok THEN Catch(callback, <<>>, InvalidArgumentsSyntax)
             ELSE IF ~IsArray(args.val)
                  THEN Catch(callback, <<>>, InvalidArgumentsShape)
             ELSE IF TransactionCodeRejected(content.transactionCode)
                  THEN Catch(callback, <<>>, EmptyTransactionCode)
             ELSE Deliver(callback, ProposalContent(content, args.val, t, k))

(* ------------------------------ inputs -------------------------------- *)

\* content.proposalId as the runtime may generate it
ProposalIdInputs ==
    {Undefined,
     Str(<<>>),
     Str(<<"p", "r", "o", "p", "o", "s", "a", "l", "-", "1", "-", "1">>),
     Str(<<"p", "r", "o", "p", "o", "s", "a", "l", "-">>),
     Str(<<"p", "r", "o", "p", "o", "s", "a", "l">>),
     Str(<<"P", "r", "o", "p", "o", "s", "a", "l", "-", "1", "-", "1">>),
     Str(<<" ", "p", "r", "o", "p", "o", "s", "a", "l", "-", "1", "-", "1">>),
     Str(<<"a", "u", "t", "h", "-", "0", "-", "0">>)}

\* content.authorizationId
AuthorizationIdInputs ==
    {Undefined,
     Str(<<>>),
     Str(<<"a", "u", "t", "h", "-", "1", "-", "1">>),
     Str(<<"a", "u", "t", "h", "-">>),
     Str(<<"a", "u", "t", "h">>),
     Str(<<"p", "r", "o", "p", "o", "s", "a", "l", "-", "0", "-", "0">>),
     Str(<<"t", "x", "-", "1", "-", "1">>)}

\* content.gasLimit
GasLimitInputs ==
    {Undefined,
     Str(<<>>),
     Str(<<"0", ".", "0", "0", "1">>),
     Str(<<"0", ".", "0", "0", "0", "1">>),
     Str(<<"3">>),
     Str(<<" ", " ", "2">>),
     Str(<<".", "5">>),
     Str(<<"a", "b", "c">>),
     Str(<<"N", "a", "N">>),
     Str(<<"0">>),
     Str(<<"0", ".", "0">>),
     Str(<<"-", "1">>),
     Str(<<"-", "0", ".", "0", "0", "1">>),
     Str(<<"0", ".", "0", "0", "0", "0", "0", "0", "0", "2">>),
     Str(<<"0", ".", "0", "0", "0", "0", "0", "0", "0", "1">>),
     Str(<<"0", ".", "0", "0", "0", "0", "0", "0", "0", "0", "8">>),
     Str(<<"0", ".", "0", "0", "0", "0", "0", "0", "0", "0", "1">>),
     Str(<<"8", "e", "-", "9">>),
     Str(<<"I", "n", "f", "i", "n", "i", "t", "y">>),
     Str(<<"-", "I", "n", "f", "i", "n", "i", "t", "y">>),
     Str(<<"1", "a", "b", "c">>),
     Str(<<"0", ".", "0", "0", "1", " ", "F", "L", "O", "W">>)}

\* content.arguments
ArgumentsInputs ==
    {Undefined,
     Str(<<>>),
     Str(<<"[", "]">>),
     Str(<<" ", "[", " ", "]", " ">>),
     Str(<<"[", "1", "]">>),
     Str(<<"[", "1", ",", "2", "]">>),
     Str(<<"[", "{", "\"", "t", "\"", ":", "\"", "1", "\"", "}", "]">>),
     Str(<<"[", "[", "]", ",", "\"", "a", "\"", "]">>),
     Str(<<"{", "}">>),
     Str(<<"{", "\"", "a", "\"", ":", "[", "]", "}">>),
     Str(<<"1">>),
     Str(<<"n", "u", "l", "l">>),
     Str(<<"\"", "a", "\"">>),
     Str(<<"[", "1">>),
     Str(<<"[", "1", ",", "]">>),
     Str(<<"[", "]", "x">>),
     Str(<<"[", "0", "1", "]">>)}

\* content.transactionCode
TransactionCodeInputs ==
    {Undefined,
     Str(<<>>),
     Str(<<" ">>),
     Str(<<" ", " ", "\n">>),
     Str(<<"a">>),
     Str(<<" ", "a", " ", "b", " ">>)}

\* content.description
DescriptionInputs ==
    {Undefined,
     Str(<<"d">>)}

AuthorizerContents ==
    {NoContent} \cup [proposalId : ProposalIdInputs, authorize : BOOLEAN]

PayerContents ==
    {NoContent} \cup [authorizationId : AuthorizationIdInputs, gasLimit : GasLimitInputs]

ProposerContents ==
    {NoContent} \cup [transactionCode : TransactionCodeInputs,
                      arguments : ArgumentsInputs,
                      description : DescriptionInputs]

(* --------------------------- state machine ---------------------------- *)

\* One invocation of a handler: what it was given, its run, and the gas
\* limits it logged.
Invocation(op, content, message, callback, run, log) ==
    [op |-> op, content |-> content, message |-> message, callback |-> callback,
     at |-> now, run |-> run, log |-> log]

\* no invocation is awaited
Idle ==
    [op |-> "none", content |-> NoContent, message |-> "memory",
     callback |-> "none", at |-> 0, run |-> Run(<<>>, "returned"), log |-> <<>>]

Init ==
    /\ now = 0
    /\ call = Idle
    /\ proposed = {}
    /\ authorized = {}

\* the clock behind Date.now() advances
Tick ==
    /\ now < MaxTime
    /\ now' = now + 1
    /\ UNCHANGED <<call, proposed, authorized>>

\* the runtime has awaited the handler's promise and takes the next message
Await ==
    /\ call.op # "none"
    /\ call' = Idle
    /\ UNCHANGED <<now, proposed, authorized>>

\* the runtime invokes the proposer
Propose ==
    /\ call.op = "none"
    /\ \E content \in ProposerContents, message \in Messages,
          callback \in Callbacks, k \in RandomDraws :
           call' = Invocation("propose", content, message, callback,
                              ExecuteProposer(content, callback, now, k), <<>>)
    /\ UNCHANGED <<now, proposed, authorized>>

\* the runtime invokes the authorizer
Authorize ==
    /\ call.op = "none"
    /\ \E content \in AuthorizerContents, message \in Messages,
          callback \in Callbacks, k \in RandomDraws :
           call' = Invocation("authorize", content, message, callback,
                              ExecuteAuthorizer(content, message, callback, now, k),
                              <<>>)
    /\ UNCHANGED <<now, proposed, authorized>>

\* the runtime invokes the payer
Pay ==
    /\ call.op = "none"
    /\ \E content \in PayerContents, message \in Messages,
          callback \in Callbacks, k \in RandomDraws :
           call' = Invocation("pay", content, message, callback,
                              ExecutePayer(content, message, callback, now, k),
                              PayerLoggedLimits(content, message))
    /\ UNCHANGED <<now, proposed, authorized>>

Next == Tick \/ Await \/ Propose \/ Authorize \/ Pay

\* The handlers, each invocation on its own, with every input of the runtime.
Spec == Init /\ [][Next]_vars

(* ------------------------------ pipeline ------------------------------ *)

\* The identifiers of a kind that the run handed to the callback.
Issued(run, field) ==
    {run.delivered[i][field] :
        i \in {j \in 1..Len(run.delivered) : field \in DOMAIN run.delivered[j]}}

\* A caller proposes; the proposal identifier it is given is remembered.
PipelinePropose ==
    /\ call.op = "none"
    /\ Cardinality(proposed) < MaxIssued
    /\ \E content \in ProposerContents \ {NoContent}, k \in RandomDraws :
           LET run == ExecuteProposer(content, "returns", now, k)
           IN  /\ call' = Invocation("propose", content, "memory", "returns", run, <<>>)
               /\ proposed' = proposed \cup Issued(run, "proposalId")
    /\ UNCHANGED <<now, authorized>>

\* A caller authorizes or rejects, with an identifier it was given by the
\* proposer or with any other one.
PipelineAuthorize ==
    /\ call.op = "none"
    /\ Cardinality(authorized) < MaxIssued
    /\ \E id \in ProposalIdInputs \cup proposed, approve \in BOOLEAN,
          k \in RandomDraws :
           LET content == [proposalId |-> id, authorize |-> approve]
               run == ExecuteAuthorizer(content, "memory", "returns", now, k)
           IN  /\ call' = Invocation("authorize", content, "memory", "returns",
                                     run, <<>>)
               /\ authorized' = authorized \cup Issued(run, "authorizationId")
    /\ UNCHANGED <<now, proposed>>

\* A caller pays, with an identifier it was given by the authorizer or with
\* any other one.
PipelinePay ==
    /\ call.op = "none"
    /\ \E id \in AuthorizationIdInputs \cup authorized, limit \in GasLimitInputs,
          k \in RandomDraws :
           LET content == [authorizationId |-> id, gasLimit |-> limit]
           IN  call' = Invocation("pay", content, "memory", "returns",
                                  ExecutePayer(content, "memory", "returns", now, k),
                                  PayerLoggedLimits(content, "memory"))
    /\ UNCHANGED <<now, proposed, authorized>>

PipelineNext == Tick \/ Await \/ PipelinePropose \/ PipelineAuthorize \/ PipelinePay

\* A caller that carries identifiers from stage to stage.
PipelineSpec == Init /\ [][PipelineNext]_vars

(* ------------------------------- claims ------------------------------- *)

Has(r, f) == f \in DOMAIN r

\* s begins with the characters p
BeginsWith(s, p) == \E n \in 0..Len(s) : SubSeq(s, 1, n) = p

AllDigits(s) == Len(s) > 0 /\ \A i \in 1..Len(s) : IsDigit(s[i])

\* s is <prefix><digits>-<digits>
MatchesId(prefix, s) ==
    /\ BeginsWith(s, prefix)
    /\ \E j \in (Len(prefix) + 2)..(Len(s) - 1) :
          /\ s[j] = "-"
          /\ AllDigits(SubSeq(s, Len(prefix) + 1, j - 1))
          /\ AllDigits(SubSeq(s, j + 1, Len(s)))

\* v is missing, empty or does not begin with the prefix
BadIdentifier(v, prefix) == ~IsStr(v) \/ v.s = <<>> \/ ~BeginsWith(v.s, prefix)

\* The handler was invoked with a content and a message, and with a callback
\* to report to.
Reporting(op) ==
    /\ call.op = op
    /\ call.content # NoContent
    /\ call.message = "memory"
    /\ call.callback # "none"

\* The same, the callback returning normally.
Answered(op) == Reporting(op) /\ call.callback = "returns"

\* The proposer was invoked with a content and a callback (it does not read
\* the message).
Proposing ==
    /\ call.op = "propose"
    /\ call.content # NoContent
    /\ call.callback # "none"

\* the one content the callback was given
Result == call.run.delivered[1]

OneResult == Len(call.run.delivered) = 1

\* the callback was given the error message and nothing else
OnlyError(msg) == call.run.delivered = <<[error |-> msg]>>

\* C2: for every proposalId that is missing, empty or does not start with
\* "proposal-", and either value of approve, authorize reports the error
\* "Invalid proposal ID format" and nothing else: no authorizationId, no
\* status.
C2_InvalidProposalIdIsError ==
    (Reporting("authorize") /\ BadIdentifier(call.content.proposalId, ProposalPrefix))
        => /\ OnlyError(InvalidProposalId)
           /\ ~Has(Result, "authorizationId")
           /\ ~Has(Result, "status")

C2_Witness ==
    /\ Answered("authorize")
    /\ call.content = [proposalId |-> Str(<<"p", "r", "o", "p", "o", "s", "a", "l">>),
                       authorize |-> TRUE]
    /\ OnlyError(InvalidProposalId)

\* C3: for every authorize call with approve = true and a proposalId that
\* starts with "proposal-", the result has success = true and status =
\* "authorized", echoes the proposalId, and carries an authorizationId
\* auth-<digits>-<digits> made from the time of the call.
C3_ApprovedIsAuthorized ==
    (Answered("authorize") /\ call.content.authorize
        /\ ~BadIdentifier(call.content.proposalId, ProposalPrefix))
        => /\ OneResult
           /\ DOMAIN Result = {"success", "proposalId", "authorizationId", "status"}
           /\ Result.success = TRUE
           /\ Result.status = "authorized"
           /\ Result.proposalId = call.content.proposalId
           /\ IsStr(Result.authorizationId)
           /\ MatchesId(AuthPrefix, Result.authorizationId.s)
           /\ BeginsWith(Result.authorizationId.s,
                         AuthPrefix \o NatToString(call.at) \o <<"-">>)

C3_Witness ==
    /\ Answered("authorize")
    /\ call.content = [proposalId |-> Str(ProposalPrefix \o <<"1", "-", "1">>),
                       authorize |-> TRUE]
    /\ call.at = 1
    /\ OneResult
    /\ Result.authorizationId = Str(<<"a", "u", "t", "h", "-", "1", "-", "5", "0", "0">>)

\* C4 as stated: for all authorize calls with approve = false, whatever the
\* proposalId, the result has no authorizationId and status = "rejected".
C4_RejectedWhateverTheId ==
    (Answered("authorize") /\ ~call.content.authorize)
        => /\ OneResult
           /\ ~Has(Result, "authorizationId")
           /\ Has(Result, "status")
           /\ Result.status = "rejected"

\* C4 as amended: for all authorize calls with approve = false, the result
\* has no authorizationId; when the proposalId starts with "proposal-" it
\* has success = true, status = "rejected" and echoes the proposalId, and
\* otherwise it is the "Invalid proposal ID format" error, with no status.
C4_RejectedWhenIdValid ==
    (Answered("authorize") /\ ~call.content.authorize)
        => /\ OneResult
           /\ ~Has(Result, "authorizationId")
           /\ IF BadIdentifier(call.content.proposalId, ProposalPrefix)
              THEN OnlyError(InvalidProposalId)
              ELSE Result = [success |-> TRUE,
                             proposalId |-> call.content.proposalId,
                             status |-> "rejected"]

C4_Witness ==
    /\ Answered("authorize")
    /\ call.content = [proposalId |-> Str(ProposalPrefix), authorize |-> FALSE]
    /\ OneResult
    /\ Result.status = "rejected"

\* C5: for every authorizationId that is missing, empty or does not start
\* with "auth-", and every gas limit text, pay reports the error "Invalid
\* authorization ID format" and nothing else, before any limit is parsed or
\* logged: no transactionId, no gasUsed.
C5_InvalidAuthorizationIdIsError ==
    (Reporting("pay") /\ BadIdentifier(call.content.authorizationId, AuthPrefix))
        => /\ OnlyError(InvalidAuthorizationId)
           /\ ~Has(Result, "transactionId")
           /\ ~Has(Result, "gasUsed")
           /\ call.log = <<>>

C5_Witness ==
    /\ Answered("pay")
    /\ call.content = [authorizationId |-> Str(<<"a", "u", "t", "h">>),
                       gasLimit |-> Str(<<"0", ".", "0", "0", "1">>)]
    /\ OnlyError(InvalidAuthorizationId)

\* the text is digits with at most one point, and every digit is in `allowed`
PlainDecimal(s, allowed) ==
    /\ \E i \in 1..Len(s) : IsDigit(s[i])
    /\ \A i \in 1..Len(s) : s[i] = "." \/ (IsDigit(s[i]) /\ s[i] \in allowed)
    /\ Cardinality({i \in 1..Len(s) : s[i] = "."}) <= 1

AnyDigit == {DigitChars[i] : i \in 1..10}

\* a gas limit text that is absent, empty, without any number in it, zero or
\* negative
UnusableLimitText(v) ==
    \/ ~IsStr(v)
    \/ v.s = <<>>
    \/ (\A i \in 1..Len(v.s) : ~IsDigit(v.s[i])) /\ v.s # InfinityChars
    \/ PlainDecimal(v.s, {"0"})
    \/ Len(v.s) > 1 /\ v.s[1] = "-"
          /\ (PlainDecimal(Tail(v.s), AnyDigit) \/ Tail(v.s) = InfinityChars)

DefaultGasUsed == <<"0", ".", "0", "0", "0", "0", "7", "0", "0", "0">>

\* C6: for every authorizationId that starts with "auth-" and every gas limit
\* text that is absent, empty, non-numeric, zero or negative, pay uses the
\* limit 0.0001 and reports a SEALED receipt, never an error.
C6_UnusableLimitIsDefault ==
    (Answered("pay") /\ ~BadIdentifier(call.content.authorizationId, AuthPrefix)
        /\ UnusableLimitText(call.content.gasLimit))
        => /\ call.log = <<DefaultGasLimit>>
           /\ OneResult
           /\ ~Has(Result, "error")
           /\ Result.success = TRUE
           /\ Result.status = "SEALED"
           /\ Result.authorizationId = call.content.authorizationId
           /\ Result.gasUsed = Str(DefaultGasUsed)

C6_Witness ==
    /\ Answered("pay")
    /\ call.content = [authorizationId |-> Str(AuthPrefix \o <<"1", "-", "1">>),
                       gasLimit |-> Str(<<"-", "1">>)]
    /\ OneResult
    /\ Result.status = "SEALED"

\* x <= y for numbers that are not NaN and not negative
Leq(x, y) ==
    CASE y.k = "inf" -> TRUE
      [] x.k = "inf" -> FALSE
      [] OTHER -> x.m * Pow10(y.e) <= y.m * Pow10(x.e)

Sealed == OneResult /\ Has(Result, "status") /\ Result.status = "SEALED"

\* C7: in every SEALED receipt, the gasUsed reported is at most the gas limit
\* used for the call.
C7_UsedWithinLimit ==
    (Answered("pay") /\ Sealed)
        => Leq(ParseFloat(Result.gasUsed), call.log[1])

Unsigned(s) == IF Len(s) > 0 /\ s[1] \in {"+", "-"} THEN Tail(s) ELSE s

\* the text is a decimal number and nothing else: white space around it, a
\* sign, digits with at most one point, and possibly an exponent
DecimalText(v) ==
    /\ IsStr(v)
    /\ LET body == Unsigned(Trim(v.s))
       IN  \/ PlainDecimal(body, AnyDigit)
           \/ \E i \in 2..(Len(body) - 1) :
                 /\ body[i] \in {"e", "E"}
                 /\ PlainDecimal(SubSeq(body, 1, i - 1), AnyDigit)
                 /\ AllDigits(Unsigned(SubSeq(body, i + 1, Len(body))))

FinitePositive(x) == x.k = "fin" /\ ~x.neg /\ x.m > 0

\* C8: the limit pay uses is a finite positive number, and it is the default
\* 0.0001 whenever the text is not a decimal number in its entirety or its
\* value is not finite and positive.
C8_LimitFinitePositive ==
    (Answered("pay") /\ Len(call.log) > 0)
        => /\ FinitePositive(call.log[1])
           /\ (~DecimalText(call.content.gasLimit) => call.log[1] = DefaultGasLimit)

\* the argument texts that are a JSON array
ArrayTexts ==
    {Str(<<"[", "]">>),
     Str(<<" ", "[", " ", "]", " ">>),
     Str(<<"[", "1", "]">>),
     Str(<<"[", "1", ",", "2", "]">>),
     Str(<<"[", "{", "\"", "t", "\"", ":", "\"", "1", "\"", "}", "]">>),
     Str(<<"[", "[", "]", ",", "\"", "a", "\"", "]">>)}

\* the argument texts that are another JSON value
OtherValueTexts ==
    {Str(<<"{", "}">>),
     Str(<<"{", "\"", "a", "\"", ":", "[", "]", "}">>),
     Str(<<"1">>),
     Str(<<"n", "u", "l", "l">>),
     Str(<<"\"", "a", "\"">>)}

\* the script is missing, or empty once white space is dropped
Blank(v) == ~IsStr(v) \/ \A i \in 1..Len(v.s) : v.s[i] \in WhiteSpace

\* C9: propose reports an error and no proposalId whenever the arguments
\* text is not JSON or is JSON for something other than an array, or the
\* script is missing or blank; when both are invalid the arguments error is
\* the one reported.
C9_ProposeRejectsInvalid ==
    Proposing =>
        /\ call.content.arguments \notin ArrayTexts
              => /\ OneResult
                 /\ DOMAIN Result = {"error"}
                 /\ Result.error = IF call.content.arguments \in OtherValueTexts
                                   THEN InvalidArgumentsShape
                                   ELSE InvalidArgumentsSyntax
        /\ (call.content.arguments \in ArrayTexts /\ Blank(call.content.transactionCode))
              => OnlyError(EmptyTransactionCode)

C9_Witness ==
    /\ Proposing
    /\ call.content.arguments = Str(<<"{", "}">>)
    /\ call.content.transactionCode = Str(<<" ">>)
    /\ OnlyError(InvalidArgumentsShape)

\* C10: every successful propose returns a proposalId of the form
\* proposal-<digits>-<digits> that no earlier successful propose returned.
C10_ProposalIdsUnique ==
    [][(call.op = "none" /\ call'.op = "propose"
          /\ Len(call'.run.delivered) = 1
          /\ Has(call'.run.delivered[1], "proposalId"))
        => /\ MatchesId(ProposalPrefix, call'.run.delivered[1].proposalId.s)
           /\ call'.run.delivered[1].proposalId \notin proposed]_vars

\* C1: authorize reports something other than an error only for a proposalId
\* that an earlier propose returned, and pay reports a SEALED receipt only
\* for an authorizationId that an earlier authorize returned.
C1_IdentifierChained ==
    /\ (Answered("authorize") /\ OneResult /\ ~Has(Result, "error"))
          => call.content.proposalId \in proposed
    /\ (Answered("pay") /\ Sealed)
          => call.content.authorizationId \in authorized

\* the messages of the errors a handler raises itself
ValidationMessages(op) ==
    CASE op = "propose" ->
           {InvalidArgumentsSyntax, InvalidArgumentsShape, EmptyTransactionCode}
      [] op = "authorize" -> {InvalidProposalId}
      [] op = "pay" -> {InvalidAuthorizationId}
      [] OTHER -> {}

IdentifierFields == {"proposalId", "authorizationId", "transactionId"}

\* C11 as stated: every error result of propose, authorize or pay carries
\* success = false together with a non-empty error string, and no identifier
\* field.
C11_ErrorHasSuccessFalse ==
    \A i \in 1..Len(call.run.delivered) :
        LET r == call.run.delivered[i]
        IN  Has(r, "error")
                => /\ Has(r, "success")
                   /\ r.success = FALSE
                   /\ r.error # ""
                   /\ DOMAIN r \cap IdentifierFields = {}

\* C11 as amended: every error result of propose, authorize or pay is
\* {error: <message>} and nothing else (no success field, no identifier),
\* the message being the handler's own non-empty validation message or,
\* after a callback that threw on the success result, the message of that
\* exception.
C11_ErrorHasErrorOnly ==
    \A i \in 1..Len(call.run.delivered) :
        LET r == call.run.delivered[i]
        IN  Has(r, "error")
                => /\ DOMAIN r = {"error"}
                   /\ IF i = 1
                      THEN r.error \in ValidationMessages(call.op) /\ r.error # ""
                      ELSE call.callback = "throws" /\ r.error = CallbackError

C11_Witness ==
    /\ Proposing
    /\ call.callback = "returns"
    /\ call.content.arguments = Str(<<"[", "]">>)
    /\ call.content.transactionCode = Undefined
    /\ OnlyError(EmptyTransactionCode)

\* C12: every pay invocation that is given a callback has invoked it exactly
\* once when it completes, with a SEALED receipt or with an error result:
\* never zero results, never two.
C12_PayReportsExactlyOnce ==
    (call.op = "pay" /\ call.callback # "none")
        => /\ OneResult
           /\ Has(Result, "error") \/ Sealed

\* C13: no exception leaves a handler: for every input (a null content,
\* missing fields, a missing message, a callback that throws) execute of
\* the proposer, the authorizer and the payer returns normally.
C13_NoExceptionEscapes ==
    call.op # "none" => call.run.outcome = "returned"

====
